---- MODULE Spec2Model ----
(***************************************************************************)
(* Model of get_hyperfine (src/Muon-site-summary.ipynb, lines 146-234):    *)
(* a single forward scan of a VASP OUTCAR report for the total-spin line,  *)
(* the Fermi-contact table and the dipolar table, followed by the          *)
(* synthesis of the effective field at the muon site.                      *)
(*                                                                         *)
(* A line of the report is the sequence of its whitespace-separated        *)
(* tokens.  The report is produced lazily: every read of the file object   *)
(* either returns one more line of LineSet or hits the end of the file, so *)
(* the behaviours cover every report of at most MaxLines lines over        *)
(* LineSet.  Reals are fixed-point integers.                               *)
(***************************************************************************)
EXTENDS Integers, Sequences, FiniteSets, TLC

VARIABLES pc, natoms, muon_index, fopen, nread, line, totalS,
          contacts, dipole_tensors, k, i, err, res,
          block, inReport, hist

\* block, inReport and hist are history variables: block holds the lines
\* consumed by next(f) in the block being read, from the third one after its
\* header on; inReport holds the markers that occur in the lines read so
\* far; hist holds, in file order, the blocks read completely so far, each
\* with its kind and its data rows.  block and hist are emptied when an
\* exception raised inside a block ends the scan.

vars == <<pc, natoms, muon_index, fopen, nread, line, totalS,
          contacts, dipole_tensors, k, i, err, res, block, inReport, hist>>

(* ------------------------------ bounds --------------------------------- *)
MaxLines == 12
MaxAtoms == 2

(* ----------------------------- constants ------------------------------- *)
\* 851.616 / (2*pi) = 135.54 MHz/T, as a fixed-point integer
gamma_mu == 136
\* scale of the fixed-point cosine
CosScale == 10000
\* scale of the fixed-point field magnitude
MagScale == 10

re_totalspin == <<"Total", "magnetic", "moment", "S">>
re_contact == <<"Fermi", "contact", "(isotropic)", "hyperfine", "coupling", "parameter", "(MHz)">>
re_dipole == <<"Dipolar", "hyperfine", "coupling", "parameters", "(MHz)">>

(* ------------------------- the lines of a report ----------------------- *)
LSpin == re_totalspin \o <<"=", "1">>
LContact == re_contact
LDipole == re_dipole
LSep == <<"-----">>
RowA == <<"1", "1", "2", "-3", "1", "-1", "2">>
RowB == <<"2", "3", "-2", "-1", "2", "0", "0">>
RowShort == <<"1", "1">>
RowLong == <<"3", "-1", "-1", "2", "-2", "1", "1", "-1">>

LineSet == {LSpin, LContact, LDipole, LSep, RowA, RowB, RowShort, RowLong}

MuonIndexSet == (0 - MaxAtoms) .. (MaxAtoms - 1)

(* ------------------------------ helpers -------------------------------- *)
\* re.search(line): the pattern's tokens occur contiguously in the line
Search(re, l) ==
    \E s \in 0 .. (Len(l) - Len(re)) : SubSeq(l, s + 1, s + Len(re)) = re

\* the decimal literals float() accepts, with their values
NumTok ==
    [t \in {"0", "1", "2", "3", "-1", "-2", "-3"} |->
        CASE t = "0" -> 0 [] t = "1" -> 1 [] t = "2" -> 2 [] t = "3" -> 3
          [] t = "-1" -> 0 - 1 [] t = "-2" -> 0 - 2 [] t = "-3" -> 0 - 3]

IsNum(t) == t \in DOMAIN NumTok
Float(t) == NumTok[t]

\* l.split()[-1]
LastTok(l) == l[Len(l)]

Zero3 == <<<<0, 0, 0>>, <<0, 0, 0>>, <<0, 0, 0>>>>
Eye3 == <<<<1, 0, 0>>, <<0, 1, 0>>, <<0, 0, 1>>>>

MatScale(m, c) == [r \in 1..3 |-> [cc \in 1..3 |-> m[r][cc] * c]]
MatAdd(a, b) == [r \in 1..3 |-> [cc \in 1..3 |-> a[r][cc] + b[r][cc]]]

\* np.zeros(natoms), np.zeros((natoms, 3, 3))
ZeroContacts(n) == [j \in 1..n |-> 0]
ZeroTensors_m(n) == [j \in 1..n |-> Eye3]
ZeroTensors(n) == [j \in 1..n |-> Zero3]

NoRes == [none |-> TRUE]
\* a float that may be NaN: the quotient and the angle
Num(x) == [nan |-> FALSE, v |-> x]
NaN == [nan |-> TRUE, v |-> 0]

\* the markers a line of the report carries
Markers(l) ==
    (IF Search(re_contact, l) THEN {"contact"} ELSE {})
        \cup (IF Search(re_dipole, l) THEN {"dipole"} ELSE {})

ContactSkipLines_m == 3 - 1
\* number of next(f) calls between a contact header and its first data row
ContactSkipLines == 3
DipoleSkipLines_m == 3 - 1
\* number of next(f) calls between a dipolar header and its first data row
DipoleSkipLines == 3

EofInBlock_m == [pc |-> "synth", err |-> "none"]
\* next(f) on an exhausted file: StopIteration leaves the function
EofInBlock == [pc |-> "error", err |-> "StopIteration"]

\* float(next(f).split()[-1])
ContactParse(l) ==
    IF Len(l) = 0 THEN [err |-> "IndexError", val |-> 0]
    ELSE IF ~IsNum(LastTok(l)) THEN [err |-> "ValueError", val |-> 0]
    ELSE [err |-> "none", val |-> Float(LastTok(l))]

DipoleWrites_m ==
    << <<1, 1, 1>>, <<2, 2, 2>>, <<3, 3, 3>>,
       <<1, 2, 4>>, <<2, 1, 5>>,
       <<1, 3, 5>>, <<3, 1, 5>>,
       <<2, 3, 6>>, <<3, 2, 6>> >>
\* the nine assignments of a dipolar row, in program order:
\* <<row, column, index into A_dip>> (indices into A_dip counted from 0)
DipoleWrites ==
    << <<1, 1, 1>>, <<2, 2, 2>>, <<3, 3, 3>>,
       <<1, 2, 4>>, <<2, 1, 4>>,
       <<1, 3, 5>>, <<3, 1, 5>>,
       <<2, 3, 6>>, <<3, 2, 6>> >>

RECURSIVE ApplyWrites_m(_, _, _)
ApplyWrites_m(t, A_dip, n) ==
    IF n = 0 THEN t
    ELSE LET p == ApplyWrites_m(t, A_dip, n - 1)
             w == DipoleWrites[n]
         IN  [p EXCEPT ![w[1]] =
                 [p[w[1]] EXCEPT ![w[2]] = p[w[1]][w[2]] + A_dip[w[3] + 1]]]
\* the tensor after the first n assignments of a row with values A_dip
RECURSIVE ApplyWrites(_, _, _)
ApplyWrites(t, A_dip, n) ==
    IF n = 0 THEN t
    ELSE LET p == ApplyWrites(t, A_dip, n - 1)
             w == DipoleWrites[n]
         IN  [p EXCEPT ![w[1]] = [p[w[1]] EXCEPT ![w[2]] = A_dip[w[3] + 1]]]

\* np.array(next(f).split()).astype(float) and the assignments that follow:
\* a non-numeric token fails the conversion before any assignment, a short
\* row fails at the first assignment whose index is out of range
DipoleParse(t, l) ==
    IF \E j \in 1..Len(l) : ~IsNum(l[j]) THEN [err |-> "ValueError", tensor |-> t]
    ELSE LET A_dip == [j \in 1..Len(l) |-> Float(l[j])]
             nOK == Cardinality({w \in 1..Len(DipoleWrites) :
                                    DipoleWrites[w][3] + 1 <= Len(A_dip)})
         IN  [err |-> IF nOK = Len(DipoleWrites) THEN "none" ELSE "IndexError",
              tensor |-> ApplyWrites(t, A_dip, nOK)]

SiteOf_m(m, n) == IF n = 0 THEN 0 ELSE (m % n) + 1
\* numpy indexing of an array of length n with index m: the position
\* (counted from 1) the index designates, 0 when it is out of range
SiteOf(m, n) ==
    IF (0 - n) <= m /\ m < n
    THEN (IF m < 0 THEN m + n ELSE m) + 1
    ELSE 0

Abs(x) == IF x < 0 THEN 0 - x ELSE x

\* the largest r in lo..hi with r * r <= n (lo * lo <= n < (hi + 1)^2)
RECURSIVE Isqrt(_, _, _)
Isqrt(n, lo, hi) ==
    IF lo = hi THEN lo
    ELSE LET mid == (lo + hi + 1) \div 2
         IN  IF mid * mid <= n THEN Isqrt(n, mid, hi) ELSE Isqrt(n, lo, mid - 1)

\* np.linalg.norm of a 3-vector, in units of 1/MagScale
Norm(v) ==
    LET s == v[1] * v[1] + v[2] * v[2] + v[3] * v[3]
    IN  Isqrt(MagScale * MagScale * s, 0,
              MagScale * (Abs(v[1]) + Abs(v[2]) + Abs(v[3])))

\* a / b of two floats (b in units of 1/MagScale, the quotient in units of
\* 1/CosScale): 0/0 is NaN (numpy warns, it does not raise)
Divide(a, b) ==
    IF b = 0 THEN NaN
    ELSE IF a >= 0 THEN Num((a * MagScale * CosScale) \div b)
    ELSE Num(0 - (((0 - a) * MagScale * CosScale) \div b))

\* floor(CosScale * cos((j + 0.5) degrees)), j = 0..89
CosTable ==
    <<
       9999, 9996, 9990, 9981, 9969, 9953, 9935, 9914, 9890, 9862, 9832,
       9799, 9762, 9723, 9681, 9636, 9588, 9537, 9483, 9426, 9366, 9304,
       9238, 9170, 9099, 9025, 8949, 8870, 8788, 8703, 8616, 8526, 8433,
       8338, 8241, 8141, 8038, 7933, 7826, 7716, 7604, 7489, 7372, 7253,
       7132, 7009, 6883, 6755, 6626, 6494, 6360, 6225, 6087, 5948, 5807,
       5664, 5519, 5372, 5224, 5075, 4924, 4771, 4617, 4461, 4305, 4146,
       3987, 3826, 3665, 3502, 3338, 3173, 3007, 2840, 2672, 2503, 2334,
       2164, 1993, 1822, 1650, 1478, 1305, 1132, 958, 784, 610, 436, 261,
       87 >>

CosHalf(j) == IF j < 90 THEN CosTable[j + 1] ELSE 0 - CosTable[180 - j]

\* 180 * arccos(c) / pi, to the nearest degree; arccos(NaN) is NaN
ArcCosDeg(c) ==
    IF c.nan THEN NaN
    ELSE Num(Cardinality({j \in 0..179 : CosHalf(j) > c.v}))

\* if theta > 90: theta = 180 - theta   (NaN > 90 is False)
Fold(theta) ==
    IF theta.nan THEN NaN
    ELSE IF theta.v > 90 THEN Num(180 - theta.v) ELSE theta

HalfRow_m(A) == [j \in 1..3 |-> A[2][j] \div 2]
\* 0.5 * A[2]
HalfRow(A) == [j \in 1..3 |-> A[3][j] \div 2]

\* lines 210-232: the result record for site s (1-based)
Result(c, d) ==
    LET A_c == c * gamma_mu
        A_dip == MatScale(d, gamma_mu)
        A == MatAdd(A_dip, MatScale(Eye3, A_c))
        Bfield == HalfRow(A)
        B_magnitude == Norm(Bfield)
        theta == Fold(ArcCosDeg(Divide(Bfield[3], B_magnitude)))
    IN  [A_c |-> A_c, A_dip |-> A_dip, A |-> A, Bfield |-> Bfield,
         B_magnitude |-> B_magnitude, theta |-> theta]

Init ==
    /\ pc = "for"
    /\ natoms \in 0..MaxAtoms
    /\ muon_index \in MuonIndexSet
    /\ fopen = TRUE
    /\ nread = 0
    /\ line = <<>>
    /\ totalS = "unset"
    /\ contacts = ZeroContacts(natoms)
    /\ dipole_tensors = ZeroTensors(natoms)
    /\ k = 0
    /\ i = 0
    /\ err = "none"
    /\ res = NoRes
    /\ block = <<>>
    /\ inReport = {}
    /\ hist = <<>>


(* ------------------------------ actions -------------------------------- *)
\* the history after a block of the given kind has been read completely:
\* its data rows are the last natoms lines consumed
Completed(kind, b) ==
    Append(hist, [kind |-> kind,
                  rows |-> SubSeq(b, Len(b) - natoms + 1, Len(b))])

Raise_m(e) ==
    /\ pc' = "error"
    /\ err' = e
    /\ fopen' = fopen
    /\ block' = <<>>
    /\ hist' = <<>>
\* an exception leaves the with-block (the file is closed) and the function
Raise(e) ==
    /\ pc' = "error"
    /\ err' = e
    /\ fopen' = FALSE
    /\ block' = <<>>
    /\ hist' = <<>>

\* for line in f:  and the total-spin test of the loop body (lines 171-173)
ForLine ==
    /\ pc = "for"
    /\ \/ /\ pc' = "synth"
          /\ fopen' = FALSE
          /\ UNCHANGED <<nread, line, totalS, err, inReport>>
       \/ /\ nread < MaxLines
          /\ \E l \in LineSet :
               /\ line' = l
               /\ nread' = nread + 1
               /\ inReport' = inReport \cup Markers(l)
               /\ IF Search(re_totalspin, l)
                  THEN IF IsNum(LastTok(l))
                       THEN /\ totalS' = Float(LastTok(l))
                            /\ pc' = "contact"
                            /\ UNCHANGED <<err, fopen>>
                       ELSE /\ pc' = "error"
                            /\ err' = "ValueError"
                            /\ fopen' = FALSE
                            /\ UNCHANGED totalS
                  ELSE /\ pc' = "contact"
                       /\ UNCHANGED <<totalS, err, fopen>>
    /\ block' = <<>>
    /\ UNCHANGED <<natoms, muon_index, contacts, dipole_tensors, k, i, res, hist>>

\* if re_contact.search(line):   (line 175)
ContactHeader ==
    /\ pc = "contact"
    /\ pc' = IF Search(re_contact, line) THEN "cskip" ELSE "dipole"
    /\ UNCHANGED <<natoms, muon_index, fopen, nread, line, totalS, contacts,
                   dipole_tensors, k, i, err, res, block, inReport, hist>>

\* one next(f) of lines 176-178
ContactSkip ==
    /\ pc = "cskip"
    /\ \/ /\ pc' = EofInBlock.pc
          /\ err' = EofInBlock.err
          /\ fopen' = FALSE
          /\ block' = <<>>
          /\ hist' = <<>>
          /\ UNCHANGED <<nread, inReport, k>>
       \/ /\ nread < MaxLines
          /\ \E l \in LineSet :
               /\ nread' = nread + 1
               /\ block' = IF k >= 2 THEN Append(block, l) ELSE block
               /\ inReport' = inReport \cup Markers(l)
          /\ IF k + 1 < ContactSkipLines
             THEN /\ k' = k + 1
                  /\ pc' = "cskip"
                  /\ UNCHANGED hist
             ELSE /\ k' = 0
                  /\ pc' = IF natoms = 0 THEN "dipole" ELSE "crow"
                  /\ hist' = IF natoms = 0 THEN Completed("contact", <<>>) ELSE hist
          /\ UNCHANGED <<err, fopen>>
    /\ UNCHANGED <<natoms, muon_index, line, totalS, contacts,
                   dipole_tensors, i, res>>

\* one iteration of for i in range(natoms)   (lines 180-182)
ContactRow ==
    /\ pc = "crow"
    /\ \/ /\ pc' = EofInBlock.pc
          /\ err' = EofInBlock.err
          /\ fopen' = FALSE
          /\ block' = <<>>
          /\ hist' = <<>>
          /\ UNCHANGED <<nread, inReport, contacts, i>>
       \/ /\ nread < MaxLines
          /\ \E l \in LineSet :
               LET p == ContactParse(l)
               IN  /\ nread' = nread + 1
                   /\ inReport' = inReport \cup Markers(l)
                   /\ IF p.err # "none"
                      THEN /\ Raise(p.err)
                           /\ UNCHANGED <<contacts, i>>
                      ELSE /\ contacts' = [contacts EXCEPT ![i + 1] = p.val]
                           /\ block' = Append(block, l)
                           /\ IF i + 1 < natoms
                              THEN i' = i + 1 /\ pc' = "crow" /\ UNCHANGED hist
                              ELSE /\ i' = 0
                                   /\ pc' = "dipole"
                                   /\ hist' = Completed("contact", Append(block, l))
                           /\ UNCHANGED <<err, fopen>>
    /\ UNCHANGED <<natoms, muon_index, line, totalS, dipole_tensors, k, res>>

\* if re_dipole.search(line):   (line 186)
DipoleHeader ==
    /\ pc = "dipole"
    /\ pc' = IF Search(re_dipole, line) THEN "dskip" ELSE "for"
    /\ block' = <<>>
    /\ UNCHANGED <<natoms, muon_index, fopen, nread, line, totalS, contacts,
                   dipole_tensors, k, i, err, res, inReport, hist>>

\* one next(f) of lines 187-189
DipoleSkip ==
    /\ pc = "dskip"
    /\ \/ /\ pc' = EofInBlock.pc
          /\ err' = EofInBlock.err
          /\ fopen' = FALSE
          /\ block' = <<>>
          /\ hist' = <<>>
          /\ UNCHANGED <<nread, inReport, k>>
       \/ /\ nread < MaxLines
          /\ \E l \in LineSet :
               /\ nread' = nread + 1
               /\ block' = IF k >= 2 THEN Append(block, l) ELSE block
               /\ inReport' = inReport \cup Markers(l)
          /\ IF k + 1 < DipoleSkipLines
             THEN /\ k' = k + 1
                  /\ pc' = "dskip"
                  /\ UNCHANGED hist
             ELSE /\ k' = 0
                  /\ pc' = IF natoms = 0 THEN "for" ELSE "drow"
                  /\ hist' = IF natoms = 0 THEN Completed("dipole", <<>>) ELSE hist
          /\ UNCHANGED <<err, fopen>>
    /\ UNCHANGED <<natoms, muon_index, line, totalS, contacts,
                   dipole_tensors, i, res>>

\* one iteration of for i in range(natoms)   (lines 191-207)
DipoleRow ==
    /\ pc = "drow"
    /\ \/ /\ pc' = EofInBlock.pc
          /\ err' = EofInBlock.err
          /\ fopen' = FALSE
          /\ block' = <<>>
          /\ hist' = <<>>
          /\ UNCHANGED <<nread, inReport, dipole_tensors, i>>
       \/ /\ nread < MaxLines
          /\ \E l \in LineSet :
               LET p == DipoleParse(dipole_tensors[i + 1], l)
               IN  /\ nread' = nread + 1
                   /\ inReport' = inReport \cup Markers(l)
                   /\ dipole_tensors' = [dipole_tensors EXCEPT ![i + 1] = p.tensor]
                   /\ IF p.err # "none"
                      THEN /\ Raise(p.err)
                           /\ UNCHANGED i
                      ELSE /\ block' = Append(block, l)
                           /\ IF i + 1 < natoms
                              THEN i' = i + 1 /\ pc' = "drow" /\ UNCHANGED hist
                              ELSE /\ i' = 0
                                   /\ pc' = "for"
                                   /\ hist' = Completed("dipole", Append(block, l))
                           /\ UNCHANGED <<err, fopen>>
    /\ UNCHANGED <<natoms, muon_index, line, totalS, contacts, k, res>>

\* lines 210-234, after the with-block
Synthesize ==
    /\ pc = "synth"
    /\ IF SiteOf(muon_index, natoms) # 0
       THEN /\ res' = Result(contacts[SiteOf(muon_index, natoms)],
                             dipole_tensors[SiteOf(muon_index, natoms)])
            /\ pc' = "done"
            /\ UNCHANGED err
       ELSE /\ pc' = "error"
            /\ err' = "IndexError"
            /\ UNCHANGED res
    /\ UNCHANGED <<natoms, muon_index, fopen, nread, line, totalS, contacts,
                   dipole_tensors, k, i, block, inReport, hist>>

Next ==
    \/ ForLine
    \/ ContactHeader
    \/ ContactSkip
    \/ ContactRow
    \/ DipoleHeader
    \/ DipoleSkip
    \/ DipoleRow
    \/ Synthesize


Spec == Init /\ [][Next]_vars

(* ------------------------------ properties ----------------------------- *)
\* the contact block of the header in line has just been read completely
ContactBlockDone == pc = "dipole" /\ Search(re_contact, line)
\* the dipolar block of the header in line has just been read completely
DipoleBlockDone == pc = "for" /\ Search(re_dipole, line)

\* the last token of line l is a decimal literal of value x
LastIs(l, x) == Len(l) > 0 /\ IsNum(LastTok(l)) /\ Float(LastTok(l)) = x

\* the tensor the claim builds from a dipolar row: site, xx, yy, zz, xy, xz, yz
RowTensor(r) ==
    << <<Float(r[2]), Float(r[5]), Float(r[6])>>,
       <<Float(r[5]), Float(r[3]), Float(r[7])>>,
       <<Float(r[6]), Float(r[7]), Float(r[4])>> >>
RowIs(r, t) ==
    Len(r) >= 7 /\ (\A j \in 1..7 : IsNum(r[j])) /\ t = RowTensor(r)

\* C1 (amended): after a line that matches the Fermi-contact header exactly
\* three lines are skipped, whatever they hold, and the next natoms lines are
\* the data rows: contacts[i] is the last token of line header+3+i+1, the
\* sites numbered in file order.  (block[1] is the third line after the
\* header, block[j+1] the row of site j.)
C1_ContactRowsAfterThreeLines ==
    ContactBlockDone =>
        /\ Len(block) = natoms + 1
        /\ \A j \in 1..natoms : LastIs(block[j + 1], contacts[j])

\* C1 as stated: only two lines are skipped, so that the row of site j is
\* line header+2+j, the j-th line from the third one after the header on
C1_Original_TwoLinesSkipped ==
    ContactBlockDone =>
        \A j \in 1..natoms : Len(block) >= j /\ LastIs(block[j], contacts[j])

C1_Witness ==
    /\ ContactBlockDone
    /\ natoms = 2
    /\ block = <<RowB, RowA, RowShort>>
    /\ contacts = <<2, 1>>

\* C2 (amended): after a line that matches the dipolar header exactly three
\* lines are skipped and each of the next natoms lines is read as a site
\* token followed by the six numbers xx, yy, zz, xy, xz, yz; the tensor of
\* site i has the diagonal (xx, yy, zz), (0,1)=(1,0)=xy, (0,2)=(2,0)=xz and
\* (1,2)=(2,1)=yz.
C2_DipoleRowsAfterThreeLines ==
    DipoleBlockDone =>
        /\ Len(block) = natoms + 1
        /\ \A j \in 1..natoms : RowIs(block[j + 1], dipole_tensors[j])

\* C2 as stated: only two lines are skipped before the first row
C2_Original_TwoLinesSkipped ==
    DipoleBlockDone =>
        \A j \in 1..natoms : Len(block) >= j /\ RowIs(block[j], dipole_tensors[j])

C2_Witness ==
    /\ DipoleBlockDone
    /\ natoms = 2
    /\ block = <<RowA, RowB, RowA>>
    /\ dipole_tensors[1] = <<<<3, 2, 0>>, <<2, 0 - 2, 0>>, <<0, 0, 0 - 1>>>>
    /\ dipole_tensors[2] = <<<<1, 1, 0 - 1>>, <<1, 2, 2>>, <<0 - 1, 2, 0 - 3>>>>

\* the scan is inside a block: every read is a next(f)
InBlock == pc \in {"cskip", "crow", "dskip", "drow"}
\* the step finds the report exhausted (no line is read)
HitsEof == nread' = nread

\* C3: if the report ends before the three skipped lines and the natoms data
\* lines of a matched contact or dipolar header are available, the call
\* ends with an error raised to the caller (StopIteration); no result record
\* is ever built from the partial or zero-filled arrays.
C3_TruncatedBlockRaises ==
    /\ [][(InBlock /\ HitsEof) =>
            (pc' = "error" /\ err' = "StopIteration" /\ res' = NoRes)]_vars
    /\ [](err = "StopIteration" => (pc = "error" /\ res = NoRes))

\* a contact block of two sites cut after its first row
C3_Witness ==
    /\ pc = "error"
    /\ err = "StopIteration"
    /\ natoms = 2
    /\ nread = 5
    /\ contacts[1] # 0

\* a returned angle that is a number lies between 0 and 90
AngleInRange ==
    (pc = "done" /\ ~res.theta.nan) => (0 <= res.theta.v /\ res.theta.v <= 90)

\* C4 as stated: a call whose field magnitude is zero ends with an error
\* and returns no result
C4_DegenerateFieldRaises ==
    pc = "done" => res.B_magnitude # 0

\* C5 as stated: every data row of a dipolar block that is accepted holds
\* exactly a site token and six numbers
C5_MalformedRowRaises ==
    (pc \in {"drow", "for"} /\ Search(re_dipole, line)) =>
        \A j \in 2..Len(block) :
            Len(block[j]) = 7 /\ (\A t \in 1..Len(block[j]) : IsNum(block[j][t]))

\* C6 as stated: every returned angle is a number between 0 and 90
C6_AngleFolded ==
    pc = "done" => (~res.theta.nan /\ 0 <= res.theta.v /\ res.theta.v <= 90)

\* C7: a report without a dipolar header leaves the dipolar tensor of every
\* site zero, and one without a contact header every contact value zero;
\* the missing block raises nothing (the scan runs to the end of the report
\* and the synthesis starts without an error), and the contact rows are
\* stored as they are when a dipolar block is present.
C7_MissingBlockDefaults ==
    /\ ("dipole" \notin inReport => dipole_tensors = [j \in 1..natoms |-> Zero3])
    /\ ("contact" \notin inReport => contacts = [j \in 1..natoms |-> 0])
    /\ (pc \in {"synth", "done"} => err = "none")
    /\ ((pc = "done" /\ "dipole" \notin inReport) => res.A_dip = Zero3)
    /\ ((pc = "done" /\ "contact" \notin inReport) => res.A_c = 0)
    /\ ((ContactBlockDone /\ "dipole" \notin inReport) =>
            \A j \in 1..natoms :
                Len(block) > j /\ LastIs(block[j + 1], contacts[j]))

C7_Witness ==
    /\ pc = "done"
    /\ "contact" \in inReport
    /\ "dipole" \notin inReport
    /\ res.A_c # 0
    /\ res.A_dip = Zero3

\* muon_index is out of range for natoms
OutOfRange == muon_index >= natoms \/ muon_index < 0 - natoms

\* C8 as stated: a call with an out-of-range muon_index ends with an index
\* error
C8_Original_IndexErrorRaised ==
    (OutOfRange /\ pc \in {"done", "error"}) =>
        (pc = "error" /\ err = "IndexError")

\* C8 (amended): a call with an out-of-range muon_index never returns a
\* result record; the index error is raised by the first per-site lookup,
\* after the scan of the report, so that it is the error the caller sees
\* when the scan ends without a parse error of its own.
C8_OutOfRangeNoResult ==
    /\ [](OutOfRange => (res = NoRes /\ pc # "done"))
    /\ [][(OutOfRange /\ pc = "synth") =>
            (pc' = "error" /\ err' = "IndexError")]_vars

C8_Witness ==
    /\ OutOfRange
    /\ pc = "error"
    /\ err = "IndexError"
    /\ natoms = 1
    /\ "contact" \in inReport

Symmetric(m) == \A r \in 1..3 : \A c \in 1..3 : m[r][c] = m[c][r]

\* C9: in every returned result the dipolar tensor A_dip and the combined
\* tensor A are symmetric: entry (i,j) equals entry (j,i).
C9_TensorsSymmetric ==
    pc = "done" => (Symmetric(res.A_dip) /\ Symmetric(res.A))

C9_Witness ==
    /\ pc = "done"
    /\ res.A_dip[1][2] # 0
    /\ res.A_dip[1][2] # res.A_dip[1][3]
    /\ res.A_dip[1][3] # res.A_dip[2][3]

\* C10: the returned field is half of the third row of the combined tensor:
\* Bfield = 0.5 * gamma * (xz, yz, zz + contact) of the designated site,
\* where muon_index = -1 designates the last site.
C10_FieldIsHalfThirdRow ==
    pc = "done" =>
        LET s == ((muon_index + natoms) % natoms) + 1
            d == dipole_tensors[s]
        IN  /\ 2 * res.Bfield[1] = gamma_mu * d[1][3]
            /\ 2 * res.Bfield[2] = gamma_mu * d[2][3]
            /\ 2 * res.Bfield[3] = gamma_mu * (d[3][3] + contacts[s])
            /\ (muon_index = 0 - 1 => s = natoms)

C10_Witness ==
    /\ pc = "done"
    /\ natoms = 2
    /\ muon_index = 0 - 1
    /\ contacts[2] = 1
    /\ dipole_tensors[1] # dipole_tensors[2]
    /\ res.Bfield = <<0 - 68, 136, 0 - 136>>

\* the scan is over: the with-block has been left
Exited == pc \in {"synth", "done", "error"}

\* C11: the report file is closed on every exit path of the call: it is
\* open exactly while the scan is inside the with-block, and closed once the
\* scan has ended, whether by the end of the report, by a truncated block
\* or by a malformed line.
C11_FileClosedOnExit ==
    /\ Exited => ~fopen
    /\ ~Exited => fopen

\* a malformed data row of a dipolar block has ended the call
C11_Witness ==
    /\ pc = "error"
    /\ err = "ValueError"
    /\ "dipole" \in inReport
    /\ ~fopen

\* the positions in hist of the blocks of the given kind
Occurrences(kind) == {n \in 1..Len(hist) : hist[n].kind = kind}
\* the data rows of the last block of the given kind (one exists)
LastRows(kind) ==
    hist[CHOOSE n \in Occurrences(kind) :
            \A o \in Occurrences(kind) : o <= n].rows

\* C12: when the contact or the dipolar block occurs more than once, each
\* occurrence overwrites the per-site values, so that a returned result is
\* computed from the rows of the last occurrence of each block that the scan
\* read, and from no earlier one: A_c is gamma times the last token of the
\* site's row in the last contact block, A_dip is gamma times the tensor of
\* the site's row in the last dipolar block (zero for a block that never
\* occurred), and A is their combination.  (An occurrence is a header line
\* that the loop reaches; a later occurrence that is cut short ends the call
\* with an error, C3.)
C12_LastOccurrenceWins ==
    pc = "done" =>
        LET s == IF muon_index < 0 THEN natoms + muon_index + 1
                 ELSE muon_index + 1
        IN  /\ IF Occurrences("contact") = {}
               THEN res.A_c = 0
               ELSE LET row == LastRows("contact")[s]
                    IN  /\ Len(row) > 0
                        /\ IsNum(LastTok(row))
                        /\ res.A_c = gamma_mu * Float(LastTok(row))
            /\ IF Occurrences("dipole") = {}
               THEN res.A_dip = Zero3
               ELSE LET row == LastRows("dipole")[s]
                    IN  /\ Len(row) >= 7
                        /\ \A j \in 1..7 : IsNum(row[j])
                        /\ res.A_dip = MatScale(RowTensor(row), gamma_mu)
            /\ \A r \in 1..3 : \A c \in 1..3 :
                 res.A[r][c] = res.A_dip[r][c] + (IF r = c THEN res.A_c ELSE 0)

\* two dipolar blocks whose rows for the site differ; the result holds the
\* tensor of the later one
C12_Witness ==
    /\ pc = "done"
    /\ natoms = 1
    /\ hist = << [kind |-> "dipole", rows |-> <<RowA>>],
                 [kind |-> "dipole", rows |-> <<RowB>>] >>
    /\ res.A_dip = MatScale(RowTensor(RowB), gamma_mu)
    /\ res.A_dip # MatScale(RowTensor(RowA), gamma_mu)
====
